---------------------------- MODULE Spec2Model ----------------------------
(***************************************************************************)
(* Model of the HubSpot OAuth2 authorization-code exchange,                *)
(* integrationos-oauth/src/connections/hubspot/init.ts.                    *)
(*                                                                         *)
(* `init` is an async function: it destructures its input, assembles a     *)
(* form-encoded request, awaits one axios POST and maps the response to    *)
(* the normalized record; every exception is caught and re-thrown as one   *)
(* generic Error.  Each call is a small process (start -> awaiting ->      *)
(* settled -> done); the provider and the network are the environment.     *)
(***************************************************************************)
EXTENDS Naturals, Sequences, FiniteSets, TLC

VARIABLES
  input,     \* input[c]    : the `body` call c was invoked with
  pc,        \* pc[c]       : where call c is in init
  sent,      \* sent[c]     : the requests call c has handed to axios, in order
  response,  \* response[c] : how call c's request settled, NoResponse before
  outcome,   \* outcome[c]  : Pending, the returned record, or the thrown Error
  net        \* the network environment the calls run in (never changes)

vars == <<input, pc, sent, response, outcome, net>>

---------------------------------------------------------------------------
(* Bounds of the model.                                                    *)

\* Longest string, in characters, tried for an input field.
MaxLen == 1

\* Number of concurrent calls in the concurrent specification.
NumCalls == 2

---------------------------------------------------------------------------
(* JavaScript values.                                                      *)

Undefined == [t |-> "undefined"]
Null == [t |-> "null"]
Str(s) == [t |-> "string", v |-> s]
Num(n) == [t |-> "number", v |-> n]

\* Destructuring `const {...} = x` throws a TypeError exactly for these.
IsNullish(x) == x = Undefined \/ x = Null

\* Characters of input strings: a plain one and the two form delimiters.
Alphabet == {"a", "&", "="}

SeqsUpTo(n) == UNION {[1..k -> Alphabet] : k \in 0..n}

Strings == {Str(s) : s \in SeqsUpTo(MaxLen)}

\* A field of the input: absent, null, or a string.
FieldValues == {Undefined, Null} \cup Strings

\* The `body` of a DataObject over field values V: no body at all, or an
\* object whose metadata is absent, null, or an object.
BodiesOver(V) ==
  {Undefined} \cup
  [clientId : V, clientSecret : V,
   metadata : {Undefined, Null} \cup [code : V, redirectUri : V]]

---------------------------------------------------------------------------
(* Request assembly, lines 7-29.                                           *)

\* A pattern that tolerates a missing metadata object.
DestructureThrowsBodyOnly(body) == IsNullish(body)

\* Lines 7-11: the nested destructuring pattern reads body.clientId,
\* body.clientSecret and destructures body.metadata again; it throws when
\* body or body.metadata is undefined or null, and only then: a missing
\* property of an object destructures to undefined.
DestructureThrows(body) ==
  IsNullish(body) \/ IsNullish(body.metadata)

\* Reading a property while destructuring: a property the object lacks,
\* or holds as undefined, reads as undefined.
Field(obj, name) == IF IsNullish(obj) THEN Undefined ELSE obj[name]

\* The same object literal with the grant of the token-refresh request.
requestBodyRefreshGrant(body) ==
  << <<"grant_type", Str(<<"refresh_token">>)>>,
     <<"code", Field(Field(body, "metadata"), "code")>>,
     <<"client_id", Field(body, "clientId")>>,
     <<"client_secret", Field(body, "clientSecret")>>,
     <<"redirect_uri", Field(Field(body, "metadata"), "redirectUri")>> >>

\* Lines 13-19: the object literal, as its key/value pairs in order.
requestBody(body) ==
  << <<"grant_type", Str(<<"authorization_code">>)>>,
     <<"code", Field(Field(body, "metadata"), "code")>>,
     <<"client_id", Field(body, "clientId")>>,
     <<"client_secret", Field(body, "clientSecret")>>,
     <<"redirect_uri", Field(Field(body, "metadata"), "redirectUri")>> >>

\* qs percent-encodes every character outside the unreserved set.
EncodeChar(ch) ==
  IF ch = "&" THEN "%26" ELSE IF ch = "=" THEN "%3D" ELSE ch

Encode(s) == [i \in 1..Len(s) |-> EncodeChar(s[i])]

\* qs.stringify of one key: undefined is skipped, null is the empty value.
StringifyPair(p) ==
  IF p[2] = Undefined THEN <<>>
  ELSE IF p[2] = Null THEN << <<p[1], "=">> >>
  ELSE << <<p[1], "=">> \o Encode(p[2].v) >>

RECURSIVE Join(_)
Join(parts) ==
  IF parts = <<>> THEN <<>>
  ELSE IF Len(parts) = 1 THEN parts[1]
  ELSE parts[1] \o <<"&">> \o Join(Tail(parts))

RECURSIVE Parts(_)
Parts(pairs) ==
  IF pairs = <<>> THEN <<>>
  ELSE StringifyPair(Head(pairs)) \o Parts(Tail(pairs))

\* Line 28: qs.stringify(requestBody), a sequence of characters and tokens.
stringify(pairs) == Join(Parts(pairs))

\* Lines 21-29: the axios request configuration.
AxiosConfig(body) ==
  [url |-> "https://api.hubapi.com/oauth/v1/token",
   method |-> "POST",
   headers |-> ("Content-Type" :> "application/x-www-form-urlencoded")
               @@ ("Accept" :> "application/json"),
   data |-> stringify(requestBody(body))]

---------------------------------------------------------------------------
(* The provider's answers and axios's settling of the promise.             *)

NoResponse == [kind |-> "none"]
NetworkError == [kind |-> "network_error"]

Statuses == {200, 400, 500}

\* A JSON object body: each token field present or not, and a token_type.
TokenObjects ==
  [t : {"object"},
   access_token : {Undefined, Str(<<"A">>)},
   refresh_token : {Undefined, Str(<<"R">>)},
   expires_in : {Undefined, Num(3600)},
   token_type : {Undefined, Str(<<"mac">>)}]

\* response.data: a parsed JSON object, JSON null, or (the body was not
\* JSON) the raw text, which axios hands over as a string.
Text == [t |-> "string", v |-> <<"<html>">>]

SuccessData == TokenObjects \cup {Null, Text}

Responses ==
  {NetworkError}
  \cup [kind : {"http"}, status : {200}, data : SuccessData]
  \cup [kind : {"http"}, status : Statuses \ {200}, data : {Text}]

\* A provider that grants every request it receives, behind a network that
\* may fail.
FormAnswers ==
  {NetworkError,
   [kind |-> "http", status |-> 200,
    data |-> [t |-> "object", access_token |-> Str(<<"A">>),
              refresh_token |-> Str(<<"R">>), expires_in |-> Num(3600),
              token_type |-> Undefined]]}

\* A provider that grants, refuses, or answers with something that is not
\* JSON.
ConcAnswers ==
  FormAnswers \cup
  {[kind |-> "http", status |-> 400, data |-> Text],
   [kind |-> "http", status |-> 200, data |-> Text]}

\* The answers of the environment named n.
Answers(n) ==
  CASE n = "any" -> Responses
    [] n = "granting" -> FormAnswers
    [] n = "mixed" -> ConcAnswers

\* validateStatus accepting every status: only a network failure rejects.
AxiosRejectsNetworkOnly(r) == r.kind = "network_error"

\* Line 21: axios rejects on a network failure and, under the default
\* validateStatus, on every status outside 2xx.
AxiosRejects(r) ==
  r.kind = "network_error" \/ ~(r.status >= 200 /\ r.status < 300)

---------------------------------------------------------------------------
(* Outcomes, lines 31-46.                                                  *)

Pending == [kind |-> "pending"]

\* Line 45: the one Error every exception is wrapped in.
WrappedError(cause) ==
  [kind |-> "thrown",
   message |-> <<"Error fetching access token for Hubspot: ", cause>>]

\* Reading a property: of an object its value, of a string undefined.
Prop(data, name) ==
  IF data.t = "object" THEN data[name] ELSE Undefined

\* The record with the two tokens exchanged.
OutputRecordSwapped(data) ==
  [kind |-> "returned",
   accessToken |-> Prop(data, "refresh_token"),
   refreshToken |-> Prop(data, "access_token"),
   expiresIn |-> Prop(data, "expires_in"),
   tokenType |-> "Bearer",
   meta |-> <<>>]

\* The record with the provider's own token type passed through.
OutputRecordProviderTokenType(data) ==
  [kind |-> "returned",
   accessToken |-> Prop(data, "access_token"),
   refreshToken |-> Prop(data, "refresh_token"),
   expiresIn |-> Prop(data, "expires_in"),
   tokenType |-> IF Prop(data, "token_type") = Undefined THEN "Bearer"
                 ELSE Prop(data, "token_type").v[1],
   meta |-> <<>>]

\* Lines 31-43: the returned record.
OutputRecord(data) ==
  [kind |-> "returned",
   accessToken |-> Prop(data, "access_token"),
   refreshToken |-> Prop(data, "refresh_token"),
   expiresIn |-> Prop(data, "expires_in"),
   tokenType |-> "Bearer",
   meta |-> <<>>]

\* Lines 31-46 after the await: a rejection or a null body throws into the
\* catch block; otherwise the record is returned.
AfterAwait(r) ==
  IF AxiosRejects(r) THEN WrappedError("AxiosError")
  ELSE IF IsNullish(r.data) THEN WrappedError("TypeError")
  ELSE OutputRecord(r.data)

\* init as a function of its input and of the answer to its request.
InitResult(body, r) ==
  IF DestructureThrows(body) THEN WrappedError("TypeError")
  ELSE AfterAwait(r)

---------------------------------------------------------------------------
(* The calls.                                                              *)

Calls == DOMAIN pc

\* A response kept in one place for all calls: the latest other answer.
AwaitedResponseShared(c) ==
  LET others == {d \in Calls : d # c /\ response[d] # NoResponse}
  IN  IF others = {} THEN response[c]
      ELSE response[CHOOSE d \in others : TRUE]

\* Line 21: the response axios resolves call c's own promise with.
AwaitedResponse(c) == response[c]

\* Lines 5-29: call c runs up to its await: it throws in the destructuring,
\* or hands one request to axios.
Invoke(c) ==
  /\ pc[c] = "start"
  /\ IF DestructureThrows(input[c])
       THEN /\ outcome' = [outcome EXCEPT ![c] = WrappedError("TypeError")]
            /\ pc' = [pc EXCEPT ![c] = "done"]
            /\ sent' = sent
       ELSE /\ sent' = [sent EXCEPT ![c] = Append(@, AxiosConfig(input[c]))]
            /\ pc' = [pc EXCEPT ![c] = "awaiting"]
            /\ outcome' = outcome
  /\ UNCHANGED <<input, response, net>>

\* The environment: call c's request settles, with any answer of the network.
Deliver(c) ==
  /\ pc[c] = "awaiting"
  /\ \E r \in Answers(net) : response' = [response EXCEPT ![c] = r]
  /\ pc' = [pc EXCEPT ![c] = "settled"]
  /\ UNCHANGED <<input, sent, outcome, net>>

\* A resume that, on a rejected request, starts the call over.
ResumeRetrying(c) ==
  /\ pc[c] = "settled"
  /\ IF AxiosRejects(AwaitedResponse(c))
       THEN /\ pc' = [pc EXCEPT ![c] = "start"]
            /\ response' = [response EXCEPT ![c] = NoResponse]
            /\ outcome' = outcome
       ELSE /\ outcome' = [outcome EXCEPT ![c] = AfterAwait(AwaitedResponse(c))]
            /\ pc' = [pc EXCEPT ![c] = "done"]
            /\ response' = response
  /\ UNCHANGED <<input, sent, net>>

\* Lines 31-46: call c resumes after its await and ends.
Resume(c) ==
  /\ pc[c] = "settled"
  /\ outcome' = [outcome EXCEPT ![c] = AfterAwait(AwaitedResponse(c))]
  /\ pc' = [pc EXCEPT ![c] = "done"]
  /\ UNCHANGED <<input, sent, response, net>>

Next ==
  \/ \E c \in Calls : Invoke(c)
  \/ \E c \in Calls : Deliver(c)
  \/ \E c \in Calls : Resume(c)

InitOver(calls, bodies, environment) ==
  /\ input \in [calls -> bodies]
  /\ pc = [c \in calls |-> "start"]
  /\ sent = [c \in calls |-> <<>>]
  /\ response = [c \in calls |-> NoResponse]
  /\ outcome = [c \in calls |-> Pending]
  /\ net = environment

\* One call, every shape of input, every answer.
PresenceValues == {Undefined, Null, Str(<<"a">>)}

Init == InitOver({1}, BodiesOver(PresenceValues), "any")

Spec == Init /\ [][Next]_vars

\* One call, every string of up to MaxLen characters in every field, in the
\* granting environment: the specification of the request's shape.
InitForm == InitOver({1}, BodiesOver(FieldValues), "granting")

SpecForm == InitForm /\ [][Next]_vars

\* NumCalls calls in flight together, their steps and their responses
\* interleaved in every order.
ConcBodies ==
  {Undefined,
   [clientId |-> Str(<<"a">>), clientSecret |-> Str(<<"a">>),
    metadata |-> [code |-> Str(<<"a">>), redirectUri |-> Str(<<"a">>)]],
   [clientId |-> Str(<<"a">>), clientSecret |-> Str(<<"a">>),
    metadata |-> [code |-> Undefined, redirectUri |-> Str(<<"a">>)]]}

InitConc == InitOver(1..NumCalls, ConcBodies, "mixed")

SpecConc == InitConc /\ [][Next]_vars

---------------------------------------------------------------------------
(* Reading a form-encoded body back, as the provider does.                 *)

DecodeChar(tok) ==
  IF tok = "%26" THEN "&" ELSE IF tok = "%3D" THEN "=" ELSE tok

Decode(s) == [i \in 1..Len(s) |-> DecodeChar(s[i])]

FirstIndex(s, sep) ==
  IF \E i \in 1..Len(s) : s[i] = sep
    THEN CHOOSE i \in 1..Len(s) : s[i] = sep /\ \A j \in 1..(i - 1) : s[j] # sep
    ELSE 0

RECURSIVE SplitOn(_, _)
SplitOn(s, sep) ==
  LET i == FirstIndex(s, sep)
  IN  IF i = 0 THEN <<s>>
      ELSE <<SubSeq(s, 1, i - 1)>> \o SplitOn(SubSeq(s, i + 1, Len(s)), sep)

\* One name=value segment, as <<name, value>>, both decoded.
ParsePair(seg) ==
  LET i == FirstIndex(seg, "=")
  IN  IF i = 0 THEN <<Decode(seg), <<>>>>
      ELSE <<Decode(SubSeq(seg, 1, i - 1)), Decode(SubSeq(seg, i + 1, Len(seg)))>>

\* The fields of a form body, in order.
ParseForm(data) ==
  IF data = <<>> THEN <<>>
  ELSE LET segs == SplitOn(data, "&")
       IN  [i \in 1..Len(segs) |-> ParsePair(segs[i])]

FieldsNamed(form, name) == {i \in 1..Len(form) : form[i][1] = <<name>>}

---------------------------------------------------------------------------
(* Vocabulary of the claims.                                               *)

IsString(x) == x \notin {Undefined, Null}

\* clientId, clientSecret, metadata.code and metadata.redirectUri present.
AllPresent(body) ==
  /\ ~IsNullish(body)
  /\ ~IsNullish(body.metadata)
  /\ IsString(body.clientId) /\ IsString(body.clientSecret)
  /\ IsString(body.metadata.code) /\ IsString(body.metadata.redirectUri)

\* Only metadata.code is missing.
MissingCodeOnly(body) ==
  /\ ~IsNullish(body)
  /\ ~IsNullish(body.metadata)
  /\ IsString(body.clientId) /\ IsString(body.clientSecret)
  /\ body.metadata.code = Undefined /\ IsString(body.metadata.redirectUri)

Success(r) == r.kind = "http" /\ r.status >= 200 /\ r.status < 300

Failure(r) ==
  r.kind = "network_error" \/ (r.kind = "http" /\ ~(r.status >= 200 /\ r.status < 300))

\* A JSON object carrying the three token fields.
CarriesTokens(data) ==
  /\ data # Null
  /\ data.t = "object"
  /\ data.access_token # Undefined
  /\ data.refresh_token # Undefined
  /\ data.expires_in # Undefined

\* The single generic error of the exchange.
TokenExchangeError(o) ==
  /\ o.kind = "thrown"
  /\ o.message[1] = "Error fetching access token for Hubspot: "

---------------------------------------------------------------------------
(* The claims.                                                             *)

\* C1: with all four input fields present and a successful response whose
\* JSON body has access_token A, refresh_token R and expires_in E, the call
\* returns exactly {accessToken: A, refreshToken: R, expiresIn: E,
\* tokenType: "Bearer", meta: {}}, whatever else the body holds.
C1_SuccessRecord ==
  \A c \in Calls :
    (/\ pc[c] = "done"
     /\ AllPresent(input[c])
     /\ Success(response[c])
     /\ CarriesTokens(response[c].data))
    => outcome[c] = [kind |-> "returned",
                     accessToken |-> response[c].data.access_token,
                     refreshToken |-> response[c].data.refresh_token,
                     expiresIn |-> response[c].data.expires_in,
                     tokenType |-> "Bearer",
                     meta |-> <<>>]

C1_Witness ==
  \E c \in Calls :
    /\ pc[c] = "done"
    /\ AllPresent(input[c])
    /\ Success(response[c])
    /\ CarriesTokens(response[c].data)
    /\ response[c].data.token_type # Undefined
    /\ outcome[c].kind = "returned"
    /\ outcome[c].accessToken = Str(<<"A">>)
    /\ outcome[c].refreshToken = Str(<<"R">>)
    /\ outcome[c].expiresIn = Num(3600)

\* C2: when the request ends in a non-success status or in a network
\* failure, the call fails with the one generic error, whatever the cause,
\* and never returns an output record.
C2_FailureIsError ==
  \A c \in Calls :
    Failure(response[c])
    => /\ outcome[c].kind # "returned"
       /\ pc[c] = "done" => TokenExchangeError(outcome[c])
       /\ pc[c] = "done" => outcome[c] = WrappedError("AxiosError")

C2_Witness ==
  \E c \in Calls :
    /\ pc[c] = "done"
    /\ response[c].kind = "http"
    /\ response[c].status = 400
    /\ TokenExchangeError(outcome[c])

\* C3 (as claimed): an input missing only metadata.code ends in the
\* generic error, never in a successful exchange.
C3_MissingCodeFails ==
  \A c \in Calls :
    (MissingCodeOnly(input[c]) /\ pc[c] = "done")
    => TokenExchangeError(outcome[c])

\* C4 (as claimed): a successful status with a body that is not a JSON
\* object carrying the token fields ends in the generic error, and no
\* returned record lacks accessToken, refreshToken or expiresIn.
C4_BadBodyFails ==
  \A c \in Calls :
    /\ (pc[c] = "done" /\ Success(response[c])
        /\ ~CarriesTokens(response[c].data))
       => TokenExchangeError(outcome[c])
    /\ outcome[c].kind = "returned"
       => /\ outcome[c].accessToken # Undefined
          /\ outcome[c].refreshToken # Undefined
          /\ outcome[c].expiresIn # Undefined

\* C5: every returned record has tokenType "Bearer", also when the
\* provider's body carries another token_type.
C5_AlwaysBearer ==
  \A c \in Calls :
    outcome[c].kind = "returned" => outcome[c].tokenType = "Bearer"

C5_Witness ==
  \E c \in Calls :
    /\ outcome[c].kind = "returned"
    /\ response[c].data.t = "object"
    /\ response[c].data.token_type = Str(<<"mac">>)

\* The body holds grant_type=authorization_code as a whole field.
HasGrantLiteral(data) ==
  \E i \in 1..Len(data) :
    /\ i + 2 <= Len(data)
    /\ data[i] = "grant_type" /\ data[i + 1] = "=" /\ data[i + 2] = "authorization_code"
    /\ (i = 1 \/ data[i - 1] = "&")
    /\ (i + 2 = Len(data) \/ data[i + 3] = "&")

\* C6: every request issued has a body containing the literal
\* grant_type=authorization_code, and no input value changes, removes or
\* adds a grant_type field.
C6_GrantTypeLiteral ==
  \A c \in Calls : \A k \in 1..Len(sent[c]) :
    LET form == ParseForm(sent[c][k].data)
    IN  /\ HasGrantLiteral(sent[c][k].data)
        /\ Cardinality(FieldsNamed(form, "grant_type")) = 1
        /\ \A i \in FieldsNamed(form, "grant_type") :
             form[i][2] = <<"authorization_code">>

C6_Witness ==
  \E c \in Calls :
    /\ Len(sent[c]) = 1
    /\ ~IsNullish(input[c].metadata)
    /\ input[c].metadata.code = Str(<<"&">>)
    /\ input[c].clientId = Str(<<"=">>)
    /\ HasGrantLiteral(sent[c][1].data)

\* The form a request must carry for the input it was assembled from.
ExpectedForm(body) ==
  { <<<<"grant_type">>, <<"authorization_code">>>>,
    <<<<"code">>, body.metadata.code.v>>,
    <<<<"client_id">>, body.clientId.v>>,
    <<<<"client_secret">>, body.clientSecret.v>>,
    <<<<"redirect_uri">>, body.metadata.redirectUri.v>> }

\* C7 (as claimed): every request issued is a POST to the fixed URL with
\* the two headers, and its form body carries exactly the five fields
\* grant_type, code, client_id, client_secret, redirect_uri.
C7_RequestShape ==
  \A c \in Calls : \A k \in 1..Len(sent[c]) :
    LET req == sent[c][k]
        form == ParseForm(req.data)
    IN  /\ req.method = "POST"
        /\ req.url = "https://api.hubapi.com/oauth/v1/token"
        /\ req.headers = ("Content-Type" :> "application/x-www-form-urlencoded")
                         @@ ("Accept" :> "application/json")
        /\ Len(form) = 5
        /\ {form[i][1] : i \in 1..Len(form)}
             = {<<"grant_type">>, <<"code">>, <<"client_id">>,
                <<"client_secret">>, <<"redirect_uri">>}
        /\ AllPresent(input[c])
             => {form[i] : i \in 1..Len(form)} = ExpectedForm(input[c])

\* What one step changes of call c.
Local(c) == <<input[c], pc[c], sent[c], response[c], outcome[c]>>

\* C8: calls are independent: under every interleaving each call's outcome
\* is the function of its own input and of the response to its own
\* request, and a step of one call leaves every other call as it was.
C8_Independent ==
  /\ [](\A c \in Calls :
          outcome[c] = IF pc[c] = "done"
                         THEN InitResult(input[c], response[c])
                         ELSE Pending)
  /\ [][\A c, d \in Calls :
          (c # d /\ Local(c)' # Local(c)) => Local(d)' = Local(d)]_vars

C8_Witness ==
  \E c, d \in Calls :
    /\ c # d
    /\ pc[c] = "done" /\ pc[d] = "done"
    /\ input[c] = input[d]
    /\ response[c] # response[d]
    /\ outcome[c].kind = "returned"
    /\ outcome[d].kind = "thrown"

\* C9: a call issues at most one request, sends nothing once its request
\* has settled, and ends in exactly one outcome, the record or the error,
\* in the step that follows the settling; the outcome never changes.
C9_OneRequestOneOutcome ==
  /\ [](\A c \in Calls :
          /\ Len(sent[c]) <= 1
          /\ outcome[c].kind \in {"pending", "returned", "thrown"}
          /\ (pc[c] = "done") <=> (outcome[c] # Pending))
  /\ [][\A c \in Calls :
          /\ response[c] # NoResponse => sent'[c] = sent[c]
          /\ response[c] # NoResponse => response'[c] = response[c]
          /\ (response[c] # NoResponse /\ pc'[c] # pc[c]) => pc'[c] = "done"
          /\ outcome[c] # Pending => outcome'[c] = outcome[c]]_vars

C9_Witness ==
  \E c \in Calls :
    /\ pc[c] = "done"
    /\ Failure(response[c])
    /\ Len(sent[c]) = 1
    /\ outcome[c].kind = "thrown"

\* C10: when the body or its metadata object is absent, the call fails
\* with the wrapped error before any request is issued: no request is ever
\* sent for such an input.
C10_NoRequestWithoutMetadata ==
  \A c \in Calls :
    (IsNullish(input[c]) \/ IsNullish(input[c].metadata))
    => /\ sent[c] = <<>>
       /\ response[c] = NoResponse
       /\ pc[c] \in {"start", "done"}
       /\ pc[c] = "done" => TokenExchangeError(outcome[c])

C10_Witness ==
  \E c \in Calls :
    /\ ~IsNullish(input[c])
    /\ input[c].metadata = Undefined
    /\ pc[c] = "done"
    /\ sent[c] = <<>>
    /\ TokenExchangeError(outcome[c])

=============================================================================
